---- MODULE Spec2Model ----
(***************************************************************************)
(* Model of the fetch client of web-toolkit (createFetchClient): the       *)
(* retry / timeout / cancellation orchestration of requestWithRetry, the   *)
(* signal composition of composeSignal, the cancellable sleep, the policy  *)
(* resolution of resolveRetry and the throwing / safe entry points.        *)
(*                                                                         *)
(* Time is a discrete-event clock in milliseconds: it jumps to the next    *)
(* pending timer, and a timer that is due fires before the clock moves on. *)
(* Steps that JavaScript runs without yielding to the task queue (promise  *)
(* continuations, abort-event listeners) are part of the action that       *)
(* triggers them.                                                          *)
(***************************************************************************)
EXTENDS Integers, Sequences, FiniteSets, TLC

VARIABLES config, now, req

vars == <<config, now, req>>

\* ---------------------------------------------------------------- bounds
\* Math.random() is drawn from {0/RandDenom, ..., (RandDenom-1)/RandDenom}.
RandDenom == 2
\* Largest value of the numeric shorthand `retry: n`.
MaxRetryCount == 2

\* ---------------------------------------------------------------- values
\* Optional values carry their type; each type keeps its value in a field of
\* its own, so that values of different types are told apart by their shape.
Undefined == [type |-> "undefined"]
Number(n) == [type |-> "number", v |-> n]
Bool(b) == [type |-> "boolean", b |-> b]
Object(o) == [type |-> "object", o |-> o]

Min(a, b) == IF a <= b THEN a ELSE b
Max(a, b) == IF a >= b THEN a ELSE b

RECURSIVE Pow(_, _)
Pow(b, e) == IF e <= 0 THEN 1 ELSE b * Pow(b, e - 1)

\* {...a, ...b}: object spread, later keys win.
Spread(a, b) ==
  [f \in (DOMAIN a) \cup (DOMAIN b) |-> IF f \in DOMAIN b THEN b[f] ELSE a[f]]

\* String.prototype.toUpperCase on the method names of the model.
toUpperCase(m) ==
  CASE m = "get" -> "GET"
    [] m = "head" -> "HEAD"
    [] m = "post" -> "POST"
    [] OTHER -> m

\* Response.ok
ok(status) == status >= 200 /\ status <= 299

\* ------------------------------------------------------- retry helpers
\* jitter is kept in percent (0.25 is 25) so that the arithmetic stays integral.
DEFAULT_RETRY ==
  [retries |-> 2,
   statusCodes |-> {408, 425, 429, 500, 502, 503, 504},
   methods |-> {"GET", "HEAD"},
   factor |-> 2,
   minDelay |-> 300,
   maxDelay |-> 2000,
   jitter |-> 25,
   respectRetryAfterHeader |-> TRUE]

\* `m ? m.toUpperCase() : 'GET'`: an absent method is the empty string.
normalizeMethod(m) == IF m = "" THEN "GET" ELSE toUpperCase(m)

\* `if (!source)`: undefined, false and the number 0 are falsy.
Falsy(source) ==
  \/ source = Undefined
  \/ source.type = "boolean" /\ ~source.b
  \/ source.type = "number" /\ source.v = 0

\* Mutant of MethodAllowed: the method is not looked at.
MethodAllowedAlways(methods, finalMethod) == TRUE

\* `!(base.methods.length && !base.methods.includes(finalMethod))`
MethodAllowed(methods, finalMethod) ==
  ~(methods # {} /\ finalMethod \notin methods)

\* `base` of resolveRetry: the defaults overridden by a truthy source.
RetryBase(source) ==
  IF source.type = "number" THEN [DEFAULT_RETRY EXCEPT !.retries = source.v]
  ELSE IF source.type = "boolean" THEN DEFAULT_RETRY
  ELSE Spread(DEFAULT_RETRY, source.o)

RetrySource(reqRetry, defaultRetry) ==
  IF reqRetry = Undefined THEN defaultRetry ELSE reqRetry

resolveRetry(method, reqRetry, defaultRetry) ==
  LET source == RetrySource(reqRetry, defaultRetry)
      finalMethod == normalizeMethod(method)
  IN IF Falsy(source) THEN Undefined
     ELSE IF ~MethodAllowed(RetryBase(source).methods, finalMethod) THEN Undefined
     ELSE [type |-> "policy", v |-> RetryBase(source)]

\* Mutant of parseRetryAfter: Math.max(0, ...) is left out.
parseRetryAfterUnfloored(res, clock) ==
  LET ra == res.retryAfter
  IN CASE ra.kind = "absent" -> Undefined
       [] ra.kind = "seconds" -> [type |-> "number", v |-> ra.v * 1000]
       [] ra.kind = "date" -> [type |-> "number", v |-> ra.v - clock]
       [] OTHER -> Undefined

\* The Retry-After header of a response: absent, a number of seconds, an
\* HTTP date (kept as its epoch milliseconds) or text that is neither.
parseRetryAfter(res, clock) ==
  LET ra == res.retryAfter
  IN CASE ra.kind = "absent" -> Undefined
       [] ra.kind = "seconds" -> [type |-> "number", v |-> Max(0, ra.v * 1000)]
       [] ra.kind = "date" -> [type |-> "number", v |-> Max(0, ra.v - clock)]
       [] OTHER -> Undefined

\* Mutant of backoffDelay: the exponent is the attempt, not the attempt - 1.
backoffDelayExponentOffByOne(attempt, retry, rnd) ==
  LET raw == Min(retry.maxDelay,
                 retry.minDelay * Pow(retry.factor, Max(0, attempt)))
  IN IF retry.jitter = 0 THEN raw
     ELSE (raw * (100 - retry.jitter) * RandDenom + rnd * 2 * raw * retry.jitter)
            \div (100 * RandDenom)

\* Mutant of backoffDelay: `min + Math.random() * max`, the width of the
\* interval taken for its upper end.
backoffDelayScalesByMax(attempt, retry, rnd) ==
  LET raw == Min(retry.maxDelay,
                 retry.minDelay * Pow(retry.factor, Max(0, attempt - 1)))
  IN IF retry.jitter = 0 THEN raw
     ELSE (raw * (100 - retry.jitter) * RandDenom + rnd * raw * (100 + retry.jitter))
            \div (100 * RandDenom)

\* Mutant of backoffDelay: the exponential delay is not capped at maxDelay.
backoffDelayUncapped(attempt, retry, rnd) ==
  LET raw == retry.minDelay * Pow(retry.factor, Max(0, attempt - 1))
  IN IF retry.jitter = 0 THEN raw
     ELSE (raw * (100 - retry.jitter) * RandDenom + rnd * 2 * raw * retry.jitter)
            \div (100 * RandDenom)

\* rnd is the numerator of the Math.random() draw rnd / RandDenom.
backoffDelay(attempt, retry, rnd) ==
  LET raw == Min(retry.maxDelay,
                 retry.minDelay * Pow(retry.factor, Max(0, attempt - 1)))
  IN IF retry.jitter = 0 THEN raw
     ELSE (raw * (100 - retry.jitter) * RandDenom + rnd * 2 * raw * retry.jitter)
            \div (100 * RandDenom)

\* Mutant of isAbortError: no error is recognised as an abort.
isAbortErrorNever(err) == FALSE

isAbortError(err) == err.name = "AbortError"


\* ------------------------------------------------------------- errors
\* An error value is its name and the place that created it.
SleepAbort == [name |-> "AbortError", src |-> "sleep"]
ControllerAbort == [name |-> "AbortError", src |-> "controller"]
TransportAbort == [name |-> "AbortError", src |-> "transport"]
NetworkError == [name |-> "TypeError", src |-> "transport"]
RequestFailed == [name |-> "Error", src |-> "requestWithRetry"]
HookError(hook) == [name |-> "Error", src |-> hook]
\* controller.abort(reason) of the caller: abort() gives the default
\* AbortError DOMException, abort(x) gives x.
CallerReasons ==
  {[name |-> "AbortError", src |-> "caller"], [name |-> "Error", src |-> "caller"]}

FetchClientError(res) ==
  [name |-> "FetchClientError", src |-> "fetch-client", status |-> res.status]

\* ------------------------------------------------------------ signals
NewSignal == [type |-> "signal", aborted |-> FALSE, reason |-> Undefined]
NewTimer(deadline) == [type |-> "timer", deadline |-> deadline, pending |-> TRUE]

Aborted(signal) == signal # Undefined /\ signal.aborted
Pending(timer) == timer # Undefined /\ timer.pending
clearTimeout(timer) ==
  IF timer = Undefined THEN timer ELSE [timer EXCEPT !.pending = FALSE]

Log(s, ev) == [s EXCEPT !.log = Append(@, [ev |-> ev, attempt |-> s.attempt])]
LogWith(s, ev, data) ==
  [s EXCEPT !.log = Append(@, [ev |-> ev, attempt |-> s.attempt, data |-> data])]

\* Mutant of composeSignal: the comparison that guards setTimeout is reversed.
composeSignalNoTimer(s, timeoutMs, clock) ==
  IF s.userSignal = Undefined /\ (timeoutMs = Undefined \/ timeoutMs.v = 0)
  THEN [s EXCEPT !.signal = Undefined]
  ELSE [s EXCEPT !.signal = NewSignal,
                 !.onAbort = (s.userSignal # Undefined),
                 !.timeoutId = IF timeoutMs # Undefined /\ timeoutMs.v < 0
                               THEN NewTimer(clock + timeoutMs.v)
                               ELSE Undefined]

\* composeSignal(baseSignal, timeoutMs): the controller, the listener on the
\* caller's signal and the timeout timer of one logical request.
composeSignal(s, timeoutMs, clock) ==
  IF s.userSignal = Undefined /\ (timeoutMs = Undefined \/ timeoutMs.v = 0)
  THEN [s EXCEPT !.signal = Undefined]
  ELSE [s EXCEPT !.signal = NewSignal,
                 !.onAbort = (s.userSignal # Undefined),
                 !.timeoutId = IF timeoutMs # Undefined /\ timeoutMs.v > 0
                               THEN NewTimer(clock + timeoutMs.v)
                               ELSE Undefined]

\* Mutant of cleanup: the listener stays on the caller's signal.
cleanupKeepsListener(s) ==
  [s EXCEPT !.cleanupCalls = @ + 1,
            !.timeoutId = clearTimeout(@)]

\* The cleanup closure returned by composeSignal.
cleanup(s) ==
  [s EXCEPT !.cleanupCalls = @ + 1,
            !.onAbort = FALSE,
            !.timeoutId = clearTimeout(@)]

\* ------------------------------------------------- requestWithRetry
Return(s, res) ==
  [s EXCEPT !.pc = "returned", !.outcome = [kind |-> "returned", res |-> res]]
Throw(s, err) ==
  [s EXCEPT !.pc = "thrown", !.outcome = [kind |-> "thrown", error |-> err]]

\* sleep(ms, signal) called with a signal that has not fired: the timer is set.
StartSleep(s, ms, where) ==
  LogWith([s EXCEPT !.pc = where, !.sleepTimer = NewTimer(now + Max(0, ms))],
          "sleep", ms)

\* Mutant of SleepRejects: sleep does not look at a signal that already fired.
SleepRejectsNever(signal) == FALSE

\* `if (signal?.aborted) return reject(...)` at the head of sleep.
SleepRejects(signal) == Aborted(signal)

\* Mutant of TotalAttempts: one attempt too many.
TotalAttemptsOffByOne(retryPolicy) ==
  (IF retryPolicy = Undefined THEN 0 ELSE retryPolicy.v.retries) + 2

\* Mutant of TotalAttempts: `||` for `??`, so that retries: 0 counts as unset.
TotalAttemptsZeroAsUnset(retryPolicy) ==
  (IF retryPolicy = Undefined \/ retryPolicy.v.retries = 0 THEN 1
   ELSE retryPolicy.v.retries) + 1

\* Mutant of TotalAttempts: the initial try is not counted.
TotalAttemptsWithoutFirst(retryPolicy) ==
  IF retryPolicy = Undefined THEN 0 ELSE retryPolicy.v.retries

\* `(retryPolicy?.retries ?? 0) + 1`
TotalAttempts(retryPolicy) ==
  (IF retryPolicy = Undefined THEN 0 ELSE retryPolicy.v.retries) + 1

\* Mutant of Catch: every failure is rethrown at once, none is retried.
CatchNeverRetries(s, err, rnd) ==
  Throw(cleanup([s EXCEPT !.lastError = err]), err)

\* Mutant of Catch: when the attempts have run out, an error of the
\* orchestrator's own is thrown in place of the failure.
CatchSynthesizesExhausted(s, err, rnd) ==
  LET s1 == [s EXCEPT !.lastError = err]
  IN IF isAbortError(err) THEN Throw(cleanup(s1), err)
     ELSE IF s1.retryPolicy = Undefined THEN Throw(cleanup(s1), err)
     ELSE IF s1.attempt >= s1.totalAttempts THEN Throw(cleanup(s1), RequestFailed)
     ELSE IF SleepRejects(s1.signal) THEN Throw(s1, SleepAbort)
     ELSE StartSleep(s1, backoffDelay(s1.attempt, s1.retryPolicy.v, rnd), "sleepCatch")

\* Mutant of Catch: the next attempt follows a failure without a backoff delay.
CatchRetriesAtOnce(s, err, rnd) ==
  LET s1 == [s EXCEPT !.lastError = err]
  IN IF isAbortError(err) THEN Throw(cleanup(s1), err)
     ELSE IF s1.retryPolicy = Undefined \/ s1.attempt >= s1.totalAttempts
          THEN Throw(cleanup(s1), err)
     ELSE IF SleepRejects(s1.signal) THEN Throw(s1, SleepAbort)
     ELSE StartSleep(s1, 0, "sleepCatch")

\* The catch block of the attempt loop.
Catch(s, err, rnd) ==
  LET s1 == [s EXCEPT !.lastError = err]
  IN IF isAbortError(err) THEN Throw(cleanup(s1), err)
     ELSE IF s1.retryPolicy = Undefined \/ s1.attempt >= s1.totalAttempts
          THEN Throw(cleanup(s1), err)
     ELSE IF SleepRejects(s1.signal) THEN Throw(s1, SleepAbort)
     ELSE StartSleep(s1, backoffDelay(s1.attempt, s1.retryPolicy.v, rnd), "sleepCatch")

\* Mutant of HandleResponse: a response is never retried.
HandleResponseNoRetry(s, rnd) == Return(cleanup(s), s.res)

\* Mutant of HandleResponse: a response that is not ok is thrown as an error.
HandleResponseThrowsHttpError(s, rnd) ==
  IF ok(s.res.status) THEN Return(cleanup(s), s.res)
  ELSE Throw(cleanup(s), FetchClientError(s.res))

\* Mutant of HandleResponse: the Retry-After header is never read.
HandleResponseIgnoresHint(s, rnd) ==
  LET res == s.res
  IN IF s.retryPolicy = Undefined THEN Return(cleanup(s), res)
     ELSE LET retryPolicy == s.retryPolicy.v
              shouldRetry == res.status \in retryPolicy.statusCodes
          IN IF ~ok(res.status) /\ shouldRetry /\ s.attempt < s.totalAttempts
             THEN IF SleepRejects(s.signal) THEN Catch(s, SleepAbort, rnd)
                  ELSE StartSleep(s, backoffDelay(s.attempt, retryPolicy, rnd), "sleepTry")
             ELSE Return(cleanup(s), res)

\* Mutant of HandleResponse: `if (!res.ok)` is left out, so that a status of
\* statusCodes is retried whether the response is ok or not.
HandleResponseRetriesOk(s, rnd) ==
  LET res == s.res
  IN IF s.retryPolicy = Undefined THEN Return(cleanup(s), res)
     ELSE LET retryPolicy == s.retryPolicy.v
              shouldRetry == res.status \in retryPolicy.statusCodes
              retryAfter == IF retryPolicy.respectRetryAfterHeader
                            THEN parseRetryAfter(res, now) ELSE Undefined
              delay == IF retryAfter # Undefined THEN retryAfter.v
                       ELSE backoffDelay(s.attempt, retryPolicy, rnd)
          IN IF shouldRetry /\ s.attempt < s.totalAttempts
             THEN IF SleepRejects(s.signal) THEN Catch(s, SleepAbort, rnd)
                  ELSE StartSleep(s, delay, "sleepTry")
             ELSE Return(cleanup(s), res)

\* The part of the try block after `await afterResponse?.(res)`.
HandleResponse(s, rnd) ==
  LET res == s.res
  IN IF s.retryPolicy = Undefined THEN Return(cleanup(s), res)
     ELSE LET retryPolicy == s.retryPolicy.v
              shouldRetry == res.status \in retryPolicy.statusCodes
              retryAfter == IF retryPolicy.respectRetryAfterHeader
                            THEN parseRetryAfter(res, now) ELSE Undefined
              delay == IF retryAfter # Undefined THEN retryAfter.v
                       ELSE backoffDelay(s.attempt, retryPolicy, rnd)
          IN IF ~ok(res.status) /\ shouldRetry /\ s.attempt < s.totalAttempts
             THEN IF SleepRejects(s.signal) THEN Catch(s, SleepAbort, rnd)
                  ELSE StartSleep(s, delay, "sleepTry")
             ELSE Return(cleanup(s), res)

\* `const res = await fetchFn(url, baseInit)`: the transport is invoked.
InvokeFetch(s) == Log([s EXCEPT !.pc = "fetch"], "fetch")

\* The head of the attempt loop for s.attempt, up to its first suspension.
EnterAttempt(s) ==
  IF s.attempt > s.totalAttempts
  THEN Throw(cleanup(s), IF s.lastError = Undefined THEN RequestFailed ELSE s.lastError)
  ELSE IF config.beforeRequest
       THEN Log([s EXCEPT !.pc = "beforeRequest"], "beforeRequest")
       ELSE InvokeFetch(s)

\* Mutant of Abort: sleep has no abort listener, so a pending wait goes on.
AbortUnheardBySleep(s, reason, by) ==
  IF s.signal = Undefined \/ s.signal.aborted THEN s
  ELSE [s EXCEPT !.signal = [@ EXCEPT !.aborted = TRUE, !.reason = reason],
                 !.firedAt = [by |-> by, pc |-> s.pc,
                              attempt |-> s.attempt, at |-> now]]

\* controller.abort(reason) and the abort listeners it runs: a pending sleep
\* rejects, inside the try block (caught) or inside the catch block (not).
Abort(s, reason, by) ==
  IF s.signal = Undefined \/ s.signal.aborted THEN s
  ELSE LET s1 == [s EXCEPT !.signal = [@ EXCEPT !.aborted = TRUE, !.reason = reason],
                           !.firedAt = [by |-> by, pc |-> s.pc,
                                        attempt |-> s.attempt, at |-> now]]
           s2 == [s1 EXCEPT !.sleepTimer = clearTimeout(@)]
       IN CASE s.pc = "sleepTry" -> Catch(s2, SleepAbort, 0)
            [] s.pc = "sleepCatch" -> Throw(s2, SleepAbort)
            [] OTHER -> s1


\* ------------------------------------------------------------- inputs
Reqs == {1, 2}

\* The policy of the repository's retry test.
TestRetry ==
  [retries |-> 1, statusCodes |-> {503}, methods |-> {"GET"}, factor |-> 1,
   minDelay |-> 1, maxDelay |-> 1, jitter |-> 0, respectRetryAfterHeader |-> FALSE]

RetryObjects ==
  {TestRetry,
   [retries |-> 0],
   [methods |-> {}],
   [methods |-> {"get"}],
   [retries |-> 2, jitter |-> 0, minDelay |-> 100, statusCodes |-> {200, 503}]}

RetryValues ==
  {Undefined, Bool(FALSE), Bool(TRUE)}
    \cup {Number(n) : n \in 0..MaxRetryCount}
    \cup {Object(o) : o \in RetryObjects}

Methods == {"", "GET", "get", "POST"}

TimeoutValues == {Undefined, Number(0), Number(100), Number(400)}

Apis == {"request", "json", "safeJson"}

Responses ==
  {[status |-> st, retryAfter |-> [kind |-> "absent"]] : st \in {200, 404, 503}}
    \cup {[status |-> 503, retryAfter |-> ra] :
            ra \in {[kind |-> "seconds", v |-> 1], [kind |-> "seconds", v |-> -1],
                    [kind |-> "date", v |-> 500], [kind |-> "other"]}}

Cfg(retry, timeout, beforeRequest, afterResponse, fetchImplementation) ==
  [retry |-> retry, timeout |-> timeout, throwOnHttpError |-> TRUE,
   beforeRequest |-> beforeRequest, afterResponse |-> afterResponse,
   fetchImplementation |-> fetchImplementation]

Opt(method, retry, timeout, signal, throwOnHttpError) ==
  [method |-> method, retry |-> retry, timeout |-> timeout, signal |-> signal,
   throwOnHttpError |-> throwOnHttpError]

\* <<client timeout, request timeout>>
Timeouts ==
  {<<Undefined, t>> : t \in TimeoutValues} \cup {<<Number(1000), Undefined>>}

\* Every method and retry option, on a client without hooks or timeout.
PolicyScenarios ==
  {<<Cfg(dr, Undefined, FALSE, FALSE, "settles"),
     Opt(m, rr, Undefined, FALSE, Undefined), "request">> :
     dr \in {Undefined, Bool(TRUE)}, m \in Methods, rr \in RetryValues}

\* Timeouts and caller signals against transports that settle or hang.
CancelScenarios ==
  {<<Cfg(Undefined, t[1], FALSE, FALSE, fi),
     Opt("GET", rr, t[2], sig, Undefined), "request">> :
     t \in Timeouts, fi \in {"settles", "hangs"}, sig \in BOOLEAN,
     rr \in {Undefined, Bool(TRUE), Object(TestRetry), Object([retries |-> 0])}}

\* Clients with hooks.
HookScenarios ==
  {<<Cfg(Undefined, Undefined, h[1], h[2], fi),
     Opt("GET", rr, t, sig, Undefined), "request">> :
     h \in {<<TRUE, FALSE>>, <<FALSE, TRUE>>, <<TRUE, TRUE>>},
     fi \in {"settles", "hangs"},
     t \in {Undefined, Number(100)}, sig \in BOOLEAN,
     rr \in {Undefined, Object(TestRetry), Object([retries |-> 0])}}

\* The three entry points, throwing or not.
ApiScenarios ==
  {<<Cfg(Undefined, Undefined, FALSE, FALSE, fi),
     Opt("GET", rr, t, FALSE, th), api>> :
     fi \in {"settles", "hangs"}, rr \in {Undefined, Object(TestRetry)},
     t \in {Undefined, Number(100)}, th \in {Undefined, Bool(FALSE)}, api \in Apis}

\* <<minDelay, maxDelay>>
DelayBounds == {<<1, 1>>, <<1, 5>>, <<3, 10>>, <<250, 1000>>}

\* Policies that differ in the numbers backoffDelay works with.
BackoffPolicies ==
  {[retries |-> 3, minDelay |-> d[1], maxDelay |-> d[2], factor |-> f, jitter |-> j] :
     d \in DelayBounds, f \in {1, 2, 3}, j \in {0, 7, 25, 100}}

\* A transport that is down, so that every attempt ends in the catch block.
BackoffScenarios ==
  {<<Cfg(Object(p), Undefined, FALSE, FALSE, "fails"),
     Opt("GET", Undefined, Undefined, FALSE, Undefined), "request">> :
     p \in BackoffPolicies}

Scenarios ==
  PolicyScenarios \cup CancelScenarios \cup HookScenarios \cup ApiScenarios
    \cup BackoffScenarios

NewRequest(options, api) ==
  [options |-> options,
   api |-> api,
   pc |-> "idle",
   retryPolicy |-> Undefined,
   totalAttempts |-> 0,
   attempt |-> 0,
   lastError |-> Undefined,
   userSignal |-> IF options.signal THEN NewSignal ELSE Undefined,
   signal |-> Undefined,
   onAbort |-> FALSE,
   timeoutId |-> Undefined,
   sleepTimer |-> Undefined,
   res |-> Undefined,
   outcome |-> Undefined,
   result |-> Undefined,
   startedAt |-> 0,
   firedAt |-> Undefined,
   cleanupCalls |-> 0,
   log |-> <<>>]

Unused ==
  [NewRequest([method |-> "", retry |-> Undefined, timeout |-> Undefined,
               signal |-> FALSE, throwOnHttpError |-> Undefined], "request")
     EXCEPT !.pc = "unused"]

Init ==
  /\ now = 0
  /\ \E sc \in Scenarios :
       /\ config = sc[1]
       /\ req = [r \in Reqs |-> IF r = 1 THEN NewRequest(sc[2], sc[3]) ELSE Unused]

\* ------------------------------------------------------------ actions
Rands == 0..(RandDenom - 1)

\* `effectiveTimeout ?? defaultTimeout`
EffectiveTimeout(s) ==
  IF s.options.timeout # Undefined THEN s.options.timeout ELSE config.timeout

\* request / fetcher / safe up to the first suspension of requestWithRetry.
Start(r) ==
  /\ req[r].pc = "idle"
  /\ LET s == req[r]
         retryPolicy == resolveRetry(s.options.method, s.options.retry, config.retry)
         timeoutMs == EffectiveTimeout(s)
         s1 == composeSignal([s EXCEPT !.retryPolicy = retryPolicy, !.startedAt = now],
                             timeoutMs, now)
         s2 == [s1 EXCEPT !.totalAttempts = TotalAttempts(retryPolicy),
                          !.attempt = 1]
     IN req' = [req EXCEPT ![r] = EnterAttempt(s2)]
  /\ UNCHANGED <<config, now>>

\* `await beforeRequest?.(url, ...)` settles.
BeforeRequestSettles(r) ==
  /\ req[r].pc = "beforeRequest"
  /\ \E fulfilled \in BOOLEAN, rnd \in Rands :
       req' = [req EXCEPT ![r] =
                 IF fulfilled THEN InvokeFetch(req[r])
                 ELSE Catch(LogWith(req[r], "hookFailure", HookError("beforeRequest")),
                            HookError("beforeRequest"), rnd)]
  /\ UNCHANGED <<config, now>>

\* Mutant of AfterFetch: the afterResponse hook is not called.
AfterFetchSkipsHook(s, res, rnd) ==
  HandleResponse(LogWith([s EXCEPT !.res = res], "response", res), rnd)

\* The continuation of `await fetchFn(url, baseInit)` on a response.
AfterFetch(s, res, rnd) ==
  LET s1 == LogWith([s EXCEPT !.res = res], "response", res)
  IN IF config.afterResponse
     THEN Log([s1 EXCEPT !.pc = "afterResponse"], "afterResponse")
     ELSE HandleResponse(s1, rnd)

\* The transport resolves with a response.
TransportResponds(r) ==
  /\ req[r].pc = "fetch"
  /\ config.fetchImplementation = "settles"
  /\ \E res \in Responses, rnd \in Rands :
       req' = [req EXCEPT ![r] = AfterFetch(req[r], res, rnd)]
  /\ UNCHANGED <<config, now>>

\* The failures the transport can reject with in state s: a network error, an
\* AbortError of its own making (a transport that gives up by itself), and,
\* once its signal has fired, an AbortError or the signal's reason.
TransportErrors(s) ==
  (IF config.fetchImplementation \in {"settles", "fails"} THEN {NetworkError} ELSE {})
    \cup (IF config.fetchImplementation = "settles" THEN {TransportAbort} ELSE {})
    \cup (IF Aborted(s.signal) THEN {TransportAbort, s.signal.reason} ELSE {})

\* The transport rejects.
TransportFails(r) ==
  /\ req[r].pc = "fetch"
  /\ \E err \in TransportErrors(req[r]), rnd \in Rands :
       req' = [req EXCEPT ![r] = Catch(LogWith(req[r], "failure", err), err, rnd)]
  /\ UNCHANGED <<config, now>>

\* `await afterResponse?.(res)` settles.
AfterResponseSettles(r) ==
  /\ req[r].pc = "afterResponse"
  /\ \E fulfilled \in BOOLEAN, rnd \in Rands :
       req' = [req EXCEPT ![r] =
                 IF fulfilled THEN HandleResponse(req[r], rnd)
                 ELSE Catch(LogWith(req[r], "hookFailure", HookError("afterResponse")),
                            HookError("afterResponse"), rnd)]
  /\ UNCHANGED <<config, now>>

\* Mutant of SleepElapses: the timeout timer is set again for each attempt.
SleepElapsesRearm(r) ==
  /\ req[r].pc \in {"sleepTry", "sleepCatch"}
  /\ Pending(req[r].sleepTimer)
  /\ req[r].sleepTimer.deadline <= now
  /\ req' = [req EXCEPT ![r] =
               EnterAttempt([req[r] EXCEPT
                 !.sleepTimer = clearTimeout(@),
                 !.attempt = @ + 1,
                 !.timeoutId = IF @ = Undefined THEN @
                               ELSE NewTimer(now + EffectiveTimeout(req[r]).v)])]
  /\ UNCHANGED <<config, now>>

\* Mutant of SleepElapses: the loop goes on before the timer of sleep is due.
SleepElapsesEarly(r) ==
  /\ req[r].pc \in {"sleepTry", "sleepCatch"}
  /\ Pending(req[r].sleepTimer)
  /\ req' = [req EXCEPT ![r] =
               EnterAttempt([req[r] EXCEPT !.sleepTimer = clearTimeout(@),
                                           !.attempt = @ + 1])]
  /\ UNCHANGED <<config, now>>

\* The timer of sleep fires: the loop goes on to the next attempt.
SleepElapses(r) ==
  /\ req[r].pc \in {"sleepTry", "sleepCatch"}
  /\ Pending(req[r].sleepTimer)
  /\ req[r].sleepTimer.deadline <= now
  /\ req' = [req EXCEPT ![r] =
               EnterAttempt([req[r] EXCEPT !.sleepTimer = clearTimeout(@),
                                           !.attempt = @ + 1])]
  /\ UNCHANGED <<config, now>>

\* Mutant of TimeoutFires: one controller for the whole client, so that the
\* timeout of a request aborts every request of the client.
TimeoutFiresShared(r) ==
  /\ Pending(req[r].timeoutId)
  /\ req[r].timeoutId.deadline <= now
  /\ req' = [q \in Reqs |->
               Abort([req[q] EXCEPT !.timeoutId = IF q = r THEN clearTimeout(@) ELSE @],
                     ControllerAbort, "timeout")]
  /\ UNCHANGED <<config, now>>

\* The timer of composeSignal fires: controller.abort().
TimeoutFires(r) ==
  /\ Pending(req[r].timeoutId)
  /\ req[r].timeoutId.deadline <= now
  /\ req' = [req EXCEPT ![r] =
               Abort([req[r] EXCEPT !.timeoutId = clearTimeout(@)],
                     ControllerAbort, "timeout")]
  /\ UNCHANGED <<config, now>>

\* The caller aborts its own signal; onAbort runs if it is still attached.
CallerAborts(r) ==
  /\ req[r].pc \notin {"unused", "done"}
  /\ req[r].userSignal # Undefined
  /\ ~req[r].userSignal.aborted
  /\ \E reason \in CallerReasons :
       LET s1 == [req[r] EXCEPT !.userSignal = [@ EXCEPT !.aborted = TRUE,
                                                          !.reason = reason]]
       IN req' = [req EXCEPT ![r] =
                    IF s1.onAbort THEN Abort(s1, reason, "caller") ELSE s1]
  /\ UNCHANGED <<config, now>>

PendingDeadlines ==
  {req[r].timeoutId.deadline : r \in {q \in Reqs : Pending(req[q].timeoutId)}}
    \cup {req[r].sleepTimer.deadline : r \in {q \in Reqs : Pending(req[q].sleepTimer)}}

\* The clock moves to the next pending timer; a due timer fires first.
AdvanceTime ==
  /\ PendingDeadlines # {}
  /\ \A d \in PendingDeadlines : d > now
  /\ now' = CHOOSE d \in PendingDeadlines : \A e \in PendingDeadlines : d <= e
  /\ UNCHANGED <<config, req>>


\* What parseResponse and the validator can do with a response body.
ParseOutcomes == {"parsed", "SyntaxError", "ValidationError"}

\* Mutant of Settle: safe has no try / catch around request and the parser.
SettleSafeUncaught(s, parse) ==
  LET parseError == [name |-> parse, src |-> "parse"]
  IN IF s.outcome.kind = "thrown"
     THEN [kind |-> "rejected", error |-> s.outcome.error]
     ELSE LET res == s.outcome.res
              shouldThrow == IF s.api = "safeJson" THEN FALSE
                             ELSE IF s.options.throwOnHttpError # Undefined
                                  THEN s.options.throwOnHttpError.b
                                  ELSE config.throwOnHttpError
          IN IF shouldThrow /\ ~ok(res.status)
             THEN [kind |-> "rejected", error |-> FetchClientError(res)]
             ELSE IF s.api = "request"
                  THEN [kind |-> "resolved", ok |-> TRUE, response |-> res]
             ELSE IF s.api = "safeJson" /\ ~ok(res.status)
                  THEN [kind |-> "resolved", ok |-> FALSE,
                        error |-> FetchClientError(res), response |-> res]
             ELSE IF parse # "parsed" THEN [kind |-> "rejected", error |-> parseError]
             ELSE [kind |-> "resolved", ok |-> TRUE, response |-> res]

\* Mutant of Settle: the throwOnHttpError option of the request is not read,
\* only the client's.
SettleIgnoresRequestOption(s, parse) ==
  LET shouldThrow == IF s.api = "safeJson" THEN FALSE ELSE config.throwOnHttpError
      parseError == [name |-> parse, src |-> "parse"]
      rejected(err) == IF s.api = "safeJson"
                       THEN [kind |-> "resolved", ok |-> FALSE, error |-> err]
                       ELSE [kind |-> "rejected", error |-> err]
  IN IF s.outcome.kind = "thrown" THEN rejected(s.outcome.error)
     ELSE LET res == s.outcome.res
          IN IF shouldThrow /\ ~ok(res.status)
             THEN [kind |-> "rejected", error |-> FetchClientError(res)]
             ELSE IF s.api = "request"
                  THEN [kind |-> "resolved", ok |-> TRUE, response |-> res]
             ELSE IF s.api = "safeJson" /\ ~ok(res.status)
                  THEN [kind |-> "resolved", ok |-> FALSE,
                        error |-> FetchClientError(res), response |-> res]
             ELSE IF parse # "parsed" THEN rejected(parseError)
             ELSE [kind |-> "resolved", ok |-> TRUE, response |-> res]

\* request / fetcher / safe after requestWithRetry has settled.
Settle(s, parse) ==
  LET shouldThrow == IF s.api = "safeJson" THEN FALSE
                     ELSE IF s.options.throwOnHttpError # Undefined
                          THEN s.options.throwOnHttpError.b
                          ELSE config.throwOnHttpError
      parseError == [name |-> parse, src |-> "parse"]
      rejected(err) == IF s.api = "safeJson"
                       THEN [kind |-> "resolved", ok |-> FALSE, error |-> err]
                       ELSE [kind |-> "rejected", error |-> err]
  IN IF s.outcome.kind = "thrown" THEN rejected(s.outcome.error)
     ELSE LET res == s.outcome.res
          IN IF shouldThrow /\ ~ok(res.status)
             THEN [kind |-> "rejected", error |-> FetchClientError(res)]
             ELSE IF s.api = "request"
                  THEN [kind |-> "resolved", ok |-> TRUE, response |-> res]
             ELSE IF s.api = "safeJson" /\ ~ok(res.status)
                  THEN [kind |-> "resolved", ok |-> FALSE,
                        error |-> FetchClientError(res), response |-> res]
             ELSE IF parse # "parsed" THEN rejected(parseError)
             ELSE IF s.api = "safeJson"
                  THEN [kind |-> "resolved", ok |-> TRUE, data |-> "parsed",
                        response |-> res]
             ELSE [kind |-> "resolved", ok |-> TRUE, response |-> res]

Finish(r) ==
  /\ req[r].pc \in {"returned", "thrown"}
  /\ \E parse \in IF req[r].api = "request" THEN {"parsed"} ELSE ParseOutcomes :
       req' = [req EXCEPT ![r] = [req[r] EXCEPT !.pc = "done",
                                               !.result = Settle(req[r], parse)]]
  /\ UNCHANGED <<config, now>>

Next ==
  \/ \E r \in Reqs :
       \/ Start(r)
       \/ BeforeRequestSettles(r)
       \/ TransportResponds(r)
       \/ TransportFails(r)
       \/ AfterResponseSettles(r)
       \/ SleepElapses(r)
       \/ TimeoutFires(r)
       \/ CallerAborts(r)
       \/ Finish(r)
  \/ AdvanceTime

Spec == Init /\ [][Next]_vars

\* Two requests on one client, each with its own signal and timeout.
ConcurrentScenarios ==
  {<<Cfg(Undefined, Undefined, FALSE, FALSE, "fails"),
     Opt("GET", Object(TestRetry), Number(100), TRUE, Undefined),
     Opt("GET", Object(TestRetry), Number(400), TRUE, Undefined)>>,
   <<Cfg(Undefined, Undefined, TRUE, TRUE, "settles"),
     Opt("GET", Undefined, Number(100), FALSE, Undefined),
     Opt("GET", Undefined, Number(400), FALSE, Undefined)>>}

ConcurrentInit ==
  /\ now = 0
  /\ \E sc \in ConcurrentScenarios :
       /\ config = sc[1]
       /\ req = [r \in Reqs |-> NewRequest(sc[r + 1], "request")]

ConcurrentSpec == ConcurrentInit /\ [][Next]_vars

\* The most calls of one request's cleanup closure.
MaxReleases == 2

\* A holder of the composeSignal result calls cleanup() once more after the
\* request has released it.
ReleaseAgain(r) ==
  /\ req[r].cleanupCalls \in 1..(MaxReleases - 1)
  /\ req' = [req EXCEPT ![r] = cleanup(req[r])]
  /\ UNCHANGED <<config, now>>

\* A request with a caller signal and a timeout, and a second request whose
\* later timeout keeps the clock running after the first has ended.
ReleaseScenarios ==
  {<<Cfg(Undefined, Undefined, FALSE, FALSE, "fails"),
     Opt("GET", Object(TestRetry), Number(100), TRUE, Undefined),
     Opt("GET", Undefined, Number(400), FALSE, Undefined)>>,
   <<Cfg(Undefined, Undefined, TRUE, TRUE, "settles"),
     Opt("GET", Undefined, Undefined, TRUE, Undefined),
     Opt("GET", Undefined, Number(400), FALSE, Undefined)>>}

ReleaseInit ==
  /\ now = 0
  /\ \E sc \in ReleaseScenarios :
       /\ config = sc[1]
       /\ req = [r \in Reqs |-> NewRequest(sc[r + 1], "request")]

ReleaseNext == Next \/ \E r \in Reqs : ReleaseAgain(r)

ReleaseSpec == ReleaseInit /\ [][ReleaseNext]_vars

\* The steps of request r that the event loop, the hooks and the transport
\* take by themselves (all but the caller's Start and CallerAborts).
Progress(r) ==
  \/ BeforeRequestSettles(r)
  \/ TransportResponds(r)
  \/ TransportFails(r)
  \/ AfterResponseSettles(r)
  \/ SleepElapses(r)
  \/ TimeoutFires(r)
  \/ Finish(r)

\* The event loop runs due timers and continuations, and pending hooks and
\* transport calls that can settle do settle.
FairSpec ==
  /\ Spec
  /\ WF_vars(AdvanceTime)
  /\ \A r \in Reqs : WF_vars(Progress(r))


\* ============================================================ properties
Started == {r \in Reqs : req[r].pc \notin {"unused", "idle"}}
Settled(s) == s.pc \in {"returned", "thrown", "done"}

\* The events of one kind in the log of a request, in order.
Events(s, ev) == SelectSeq(s.log, LAMBDA e : e.ev = ev)
\* The number of transport invocations.
Calls(s) == Len(Events(s, "fetch"))

\* C1: one call of requestWithRetry with a resolved policy invokes the
\* transport at most maxRetries + 1 times.
C1_AtMostMaxRetriesPlusOne ==
  \A r \in Started :
    req[r].retryPolicy # Undefined
      => Calls(req[r]) <= req[r].retryPolicy.v.retries + 1

C1_Witness ==
  \E r \in Started :
    /\ req[r].pc = "done"
    /\ req[r].retryPolicy # Undefined
    /\ req[r].retryPolicy.v.retries = 2
    /\ Calls(req[r]) = 3

\* C2: once the composed signal has fired during the transport call or the
\* backoff wait of attempt N, the transport is never invoked for a later attempt.
C2_NoAttemptAfterCancellation ==
  \A r \in Started :
    LET s == req[r]
    IN (s.firedAt # Undefined /\ s.firedAt.pc \in {"fetch", "sleepTry", "sleepCatch"})
         => \A i \in DOMAIN s.log :
              s.log[i].ev = "fetch" => s.log[i].attempt <= s.firedAt.attempt

\* The signal fired during the transport call of attempt 1, the call still
\* produced a retryable response, attempts remained, and the request ended.
C2_Witness ==
  \E r \in Started :
    LET s == req[r]
    IN /\ s.pc = "done"
       /\ s.firedAt # Undefined /\ s.firedAt.pc = "fetch" /\ s.firedAt.attempt = 1
       /\ s.totalAttempts > 1
       /\ s.res # Undefined /\ s.res.status = 503
       /\ Calls(s) = 1


\* C3: when requestWithRetry has settled, on whatever exit path, cleanup has
\* been called exactly once, the timeout timer is cleared and the listener on
\* the caller's signal is detached.
C3_ReleasedExactlyOnce ==
  \A r \in Started :
    Settled(req[r])
      => /\ req[r].cleanupCalls = 1
         /\ ~req[r].onAbort
         /\ ~Pending(req[r].timeoutId)


\* The request runs under a policy whose retries is 0.
ZeroRetries(s) == s.retryPolicy # Undefined /\ s.retryPolicy.v.retries = 0

\* C4 as claimed: with maxRetries = 0 the finished request has invoked the
\* transport exactly once, whatever the outcome.
C4_ExactlyOneInvocation ==
  \A r \in Started :
    (ZeroRetries(req[r]) /\ Settled(req[r])) => Calls(req[r]) = 1

\* C4 as amended: with maxRetries = 0 the transport is invoked at most once,
\* and exactly once by the time the request settles unless the beforeRequest
\* hook failed, in which case it is not invoked and the hook's error is thrown.
C4_OneInvocationUnlessPreHookFails ==
  \A r \in Started :
    ZeroRetries(req[r])
      => /\ Calls(req[r]) <= 1
         /\ Settled(req[r])
              => \/ Calls(req[r]) = 1
                 \/ /\ Calls(req[r]) = 0
                    /\ req[r].outcome = [kind |-> "thrown",
                                         error |-> HookError("beforeRequest")]

\* A retryable response under retries: 0 is returned after one invocation.
C4_Witness ==
  \E r \in Started :
    /\ ZeroRetries(req[r])
    /\ req[r].pc = "done"
    /\ req[r].outcome.kind = "returned"
    /\ req[r].outcome.res.status = 503
    /\ Calls(req[r]) = 1

\* C5: the timeout timer is set once, at the start of the request, for
\* startedAt + timeout; it stays set until it fires or cleanup clears it, no
\* later step sets it again or moves its deadline, and when it aborts the
\* composed signal it does so at that instant, whatever the attempt.
C5_TimeoutBudgetIsCumulative ==
  /\ [](\A r \in Started :
          LET s == req[r]
          IN /\ s.timeoutId # Undefined
                  => /\ EffectiveTimeout(s) # Undefined
                     /\ s.timeoutId.deadline = s.startedAt + EffectiveTimeout(s).v
             /\ (/\ EffectiveTimeout(s) # Undefined
                 /\ EffectiveTimeout(s).v > 0
                 /\ s.cleanupCalls = 0)
                  => /\ s.timeoutId # Undefined
                     /\ \/ s.timeoutId.pending /\ now <= s.timeoutId.deadline
                        \/ /\ ~s.timeoutId.pending
                           /\ Aborted(s.signal)
                           /\ s.timeoutId.deadline <= now
             /\ (s.firedAt # Undefined /\ s.firedAt.by = "timeout")
                  => s.firedAt.at = s.startedAt + EffectiveTimeout(s).v)
  /\ [][\A r \in Started :
          req[r].timeoutId # Undefined
            => /\ req'[r].timeoutId # Undefined
               /\ req'[r].timeoutId.deadline = req[r].timeoutId.deadline
               /\ req'[r].timeoutId.pending => req[r].timeoutId.pending]_vars

\* The timeout fired during a later attempt, at startedAt + timeout.
C5_Witness ==
  \E r \in Started :
    LET s == req[r]
    IN /\ s.firedAt # Undefined
       /\ s.firedAt.by = "timeout"
       /\ s.firedAt.attempt >= 2
       /\ s.firedAt.at = s.startedAt + EffectiveTimeout(s).v
       /\ s.pc = "done"


\* Request r has a positive timeout and a transport that only settles on abort.
HangsWithTimeout(r) ==
  /\ r \in Started
  /\ config.fetchImplementation = "hangs"
  /\ EffectiveTimeout(req[r]) # Undefined
  /\ EffectiveTimeout(req[r]).v > 0

\* The entry point has delivered a failure: a rejection for request and json,
\* a result with ok = false for safeJson.
Failed(s) ==
  /\ s.pc = "done"
  /\ IF s.api = "safeJson" THEN s.result.kind = "resolved" /\ ~s.result.ok
     ELSE s.result.kind = "rejected"

\* C6: with a timeout and a transport that settles only when its signal
\* aborts, the request always ends, and it ends in a failure: the throwing
\* entry points reject, the safe one resolves with ok = false.
C6_TimeoutEndsHangingRequest ==
  /\ \A r \in Reqs : HangsWithTimeout(r) ~> Failed(req[r])
  /\ [](\A r \in Reqs : (HangsWithTimeout(r) /\ req[r].pc = "done") => Failed(req[r]))

\* The timeout fired while the transport hung and the safe entry point
\* resolved with ok = false.
C6_Witness ==
  \E r \in Reqs :
    /\ HangsWithTimeout(r)
    /\ req[r].firedAt # Undefined
    /\ req[r].firedAt.by = "timeout"
    /\ req[r].firedAt.pc = "fetch"
    /\ req[r].api = "safeJson"
    /\ Failed(req[r])


\* The retry configuration of a request is enabled, and its method (in upper
\* case, GET when absent) is not an entry of the configuration's methods.
MethodExcluded(s) ==
  LET source == RetrySource(s.options.retry, config.retry)
  IN /\ ~Falsy(source)
     /\ normalizeMethod(s.options.method) \notin RetryBase(source).methods

NonEmptyMethods(s) ==
  RetryBase(RetrySource(s.options.retry, config.retry)).methods # {}

\* C7 as claimed: a request whose method is not a member of retryableMethods
\* makes a single attempt, the empty retryableMethods included.
C7_ExcludedMethodNeverRetried ==
  \A r \in Started :
    MethodExcluded(req[r]) => req[r].attempt <= 1 /\ Calls(req[r]) <= 1

\* C7 as amended: a request whose method is not a member of a non-empty
\* retryableMethods runs without a policy and makes a single attempt.
C7_ExcludedMethodOfNonEmptyListNeverRetried ==
  \A r \in Started :
    (MethodExcluded(req[r]) /\ NonEmptyMethods(req[r]))
      => /\ req[r].retryPolicy = Undefined
         /\ req[r].totalAttempts = 1
         /\ Calls(req[r]) <= 1

\* A POST under the default policy got a 503, which was returned at once.
C7_Witness ==
  \E r \in Started :
    /\ MethodExcluded(req[r]) /\ NonEmptyMethods(req[r])
    /\ req[r].options.method = "POST"
    /\ req[r].pc = "done"
    /\ req[r].outcome.kind = "returned"
    /\ req[r].outcome.res.status \in DEFAULT_RETRY.statusCodes
    /\ Calls(req[r]) = 1


\* The responses the transport has produced for a request, in order.
ResponsesOf(s) ==
  LET R == Events(s, "response") IN [i \in 1..Len(R) |-> R[i].data]

\* A response the policy of the request retries while attempts remain.
Retryable(s, res) ==
  ~ok(res.status) /\ res.status \in s.retryPolicy.v.statusCodes

\* C8: under an active policy, when nothing failed and nothing was cancelled,
\* the settled request has seen k retryable responses followed by one last
\* response, which ended the sequence because it is not retryable or because
\* it came on the last attempt; that last response is what requestWithRetry
\* returns, after exactly k + 1 transport invocations.
C8_ReturnsFirstNonRetryableResponse ==
  \A r \in Started :
    LET s == req[r]
        R == ResponsesOf(s)
    IN (s.retryPolicy # Undefined /\ Settled(s) /\ s.lastError = Undefined)
         => /\ Len(R) >= 1
            /\ Calls(s) = Len(R)
            /\ \A i \in 1..(Len(R) - 1) : Retryable(s, R[i])
            /\ ~Retryable(s, R[Len(R)]) \/ Len(R) = s.totalAttempts
            /\ s.outcome = [kind |-> "returned", res |-> R[Len(R)]]

\* 503 then 200 with retries: 1: the 200 is returned after 2 invocations.
C8_Witness ==
  \E r \in Started :
    LET s == req[r]
        R == ResponsesOf(s)
    IN /\ s.retryPolicy # Undefined /\ s.retryPolicy.v.retries = 1
       /\ s.pc = "done" /\ s.lastError = Undefined
       /\ Len(R) = 2 /\ R[1].status = 503 /\ R[2].status = 200
       /\ s.outcome.kind = "returned" /\ s.outcome.res.status = 200
       /\ Calls(s) = 2

\* The failures the transport has rejected with for a request.
FailuresOf(s) == {e.data : e \in {s.log[i] : i \in {j \in DOMAIN s.log : s.log[j].ev = "failure"}}}

\* C9: without a policy the transport is invoked at most once and there is no
\* wait; if it produced a response (and the afterResponse hook did not fail)
\* requestWithRetry returns that very response, whatever its status, after one
\* invocation; otherwise what it throws is the hook's or the transport's own
\* failure.
C9_NoPolicyReturnsResponseAsIs ==
  \A r \in Started :
    LET s == req[r]
        R == ResponsesOf(s)
    IN s.retryPolicy = Undefined
         => /\ Calls(s) <= 1
            /\ Events(s, "sleep") = <<>>
            /\ Settled(s)
                 => IF Len(R) > 0 /\ s.lastError # HookError("afterResponse")
                    THEN /\ s.outcome = [kind |-> "returned", res |-> R[1]]
                         /\ Calls(s) = 1
                    ELSE /\ s.outcome = [kind |-> "thrown", error |-> s.lastError]
                         /\ s.lastError \in
                              {HookError("beforeRequest"), HookError("afterResponse")}
                                \cup FailuresOf(s)

\* Without a policy a 503 was returned after one invocation.
C9_Witness ==
  \E r \in Started :
    LET s == req[r]
    IN /\ s.retryPolicy = Undefined
       /\ s.pc = "done"
       /\ s.outcome.kind = "returned"
       /\ s.outcome.res.status = 503
       /\ Calls(s) = 1

\* C10: when the composed signal fires while a backoff wait is pending, that
\* same step clears the wait's timer and ends requestWithRetry with an
\* AbortError, and a settled request never invokes the transport again.
C10_AbortCutsBackoffWaitShort ==
  /\ [][\A r \in Started :
          (/\ req[r].pc \in {"sleepTry", "sleepCatch"}
           /\ ~Aborted(req[r].signal)
           /\ Aborted(req'[r].signal))
            => /\ req'[r].pc = "thrown"
               /\ isAbortError(req'[r].outcome.error)
               /\ ~Pending(req'[r].sleepTimer)
               /\ Calls(req'[r]) = Calls(req[r])]_vars
  /\ [][\A r \in Started :
          Settled(req[r])
            => /\ Settled(req'[r])
               /\ req'[r].outcome = req[r].outcome
               /\ Calls(req'[r]) = Calls(req[r])]_vars

\* The timeout fired during the wait asked for by a Retry-After header, before
\* the wait's timer was due; attempts remained, and the request ended as a
\* failure.
C10_Witness ==
  \E r \in Started :
    LET s == req[r]
    IN /\ s.firedAt # Undefined
       /\ s.firedAt.pc = "sleepTry"
       /\ s.firedAt.by = "timeout"
       /\ s.res.retryAfter.kind = "seconds"
       /\ s.firedAt.at < s.sleepTimer.deadline
       /\ s.attempt < s.totalAttempts
       /\ Calls(s) = s.attempt
       /\ isAbortError(s.outcome.error)
       /\ Failed(s)


\* The request has logged more events of kind ev in this step.
Logged(r, ev) == Len(Events(req'[r], ev)) > Len(Events(req[r], ev))

\* The events logged after the first event of kind ev.
EventsAfter(s, ev) ==
  LET first == CHOOSE i \in DOMAIN s.log :
                 s.log[i].ev = ev /\ \A j \in 1..(i - 1) : s.log[j].ev # ev
  IN IF Events(s, ev) = <<>> THEN <<>> ELSE SubSeq(s.log, first + 1, Len(s.log))

\* C11 as claimed: once a beforeRequest or afterResponse hook has failed, the
\* request starts no backoff wait and invokes the transport no more, even under
\* an active policy with attempts left.
C11_HookFailureEndsSequence ==
  \A r \in Started :
    \A i \in DOMAIN EventsAfter(req[r], "hookFailure") :
      EventsAfter(req[r], "hookFailure")[i].ev \notin {"sleep", "fetch"}

\* C11 as amended: a hook failure is handled by the catch block like a
\* transport failure of that attempt. Without a policy or on the last attempt
\* it is thrown to the caller in that step, unchanged, with no wait and no
\* further invocation; under a policy with attempts left the backoff wait of
\* the attempt starts (and rejects at once if the composed signal had fired).
C11_HookFailureHandledAsAttemptFailure ==
  [][\A r \in Started :
       Logged(r, "hookFailure")
         => LET s == req[r]
                t == req'[r]
                err == HookError(s.pc)
            IN /\ s.pc \in {"beforeRequest", "afterResponse"}
               /\ t.lastError = err
               /\ Calls(t) = Calls(s)
               /\ IF s.retryPolicy = Undefined \/ s.attempt >= s.totalAttempts
                  THEN /\ t.outcome = [kind |-> "thrown", error |-> err]
                       /\ Events(t, "sleep") = Events(s, "sleep")
                  ELSE IF Aborted(s.signal)
                       THEN /\ t.pc = "thrown"
                            /\ isAbortError(t.outcome.error)
                       ELSE /\ t.pc = "sleepCatch"
                            /\ t.attempt = s.attempt
                            /\ Pending(t.sleepTimer)
                            /\ Logged(r, "sleep")]_vars

\* The afterResponse hook failed on attempt 1 of 2; after the wait the
\* transport was invoked again and its response was returned.
C11_Witness ==
  \E r \in Started :
    LET s == req[r]
        H == Events(s, "hookFailure")
    IN /\ Len(H) = 1 /\ H[1].attempt = 1 /\ H[1].data = HookError("afterResponse")
       /\ s.totalAttempts = 2
       /\ Calls(s) = 2
       /\ s.pc = "done"
       /\ s.outcome.kind = "returned"


\* C12: a safe method never rejects. Whatever the outcome of the logical
\* request, it resolves with a tagged result: ok = false with the failure that
\* requestWithRetry threw (transport failure, cancellation, timeout, hook
\* failure), ok = false with a FetchClientError for a response that is not ok,
\* ok = false with the parser's or validator's failure, or ok = true with data.
C12_SafeNeverRejects ==
  \A r \in Started :
    LET s == req[r]
    IN (s.api = "safeJson" /\ s.pc = "done")
         => /\ s.result.kind = "resolved"
            /\ IF s.outcome.kind = "thrown"
               THEN ~s.result.ok /\ s.result.error = s.outcome.error
               ELSE IF ~ok(s.outcome.res.status)
                    THEN /\ ~s.result.ok
                         /\ s.result.error.name = "FetchClientError"
                         /\ s.result.error.status = s.outcome.res.status
               ELSE \/ s.result.ok /\ "data" \in DOMAIN s.result
                    \/ ~s.result.ok /\ s.result.error.src = "parse"

\* safeJson resolved with ok = false and the transport's own failure.
C12_Witness ==
  \E r \in Started :
    LET s == req[r]
    IN /\ s.api = "safeJson" /\ s.pc = "done"
       /\ s.outcome = [kind |-> "thrown", error |-> NetworkError]
       /\ s.result = [kind |-> "resolved", ok |-> FALSE, error |-> NetworkError]

\* `options?.throwOnHttpError ?? throwOnHttpError` of request and fetcher.
ShouldThrow(s) ==
  IF s.options.throwOnHttpError # Undefined THEN s.options.throwOnHttpError.b
  ELSE config.throwOnHttpError

\* C13: when requestWithRetry returns a response that is not ok to request or
\* to a parsing method, throwOnHttpError = true (the default) makes the method
\* reject with a FetchClientError whose status is the response's; with
\* throwOnHttpError = false no FetchClientError is made: request resolves with
\* that very response and a parsing method hands it to its parser.
C13_HttpErrorThrownUnlessDisabled ==
  \A r \in Started :
    LET s == req[r]
    IN (/\ s.api \in {"request", "json"}
        /\ s.pc = "done"
        /\ s.outcome.kind = "returned"
        /\ ~ok(s.outcome.res.status))
         => IF ShouldThrow(s)
            THEN /\ s.result.kind = "rejected"
                 /\ s.result.error.name = "FetchClientError"
                 /\ s.result.error.status = s.outcome.res.status
            ELSE IF s.api = "request"
                 THEN s.result = [kind |-> "resolved", ok |-> TRUE,
                                  response |-> s.outcome.res]
                 ELSE \/ s.result = [kind |-> "resolved", ok |-> TRUE,
                                     response |-> s.outcome.res]
                      \/ s.result.kind = "rejected" /\ s.result.error.src = "parse"

\* A 404 came back to request called with throwOnHttpError: false and was
\* returned as it is.
C13_Witness ==
  \E r \in Started :
    LET s == req[r]
    IN /\ s.api = "request" /\ s.pc = "done"
       /\ s.options.throwOnHttpError = Bool(FALSE)
       /\ config.throwOnHttpError
       /\ s.outcome.kind = "returned" /\ s.outcome.res.status = 404
       /\ s.result.kind = "resolved" /\ s.result.response.status = 404


\* The wait of the try block of request r starts in this step.
TryWaitStarts(r) == req'[r].pc = "sleepTry" /\ req[r].pc # "sleepTry"

\* The Retry-After header of a response is a number of seconds or a date.
HintParseable(res) == res.retryAfter.kind \in {"seconds", "date"}

\* The hint in milliseconds from the present instant, 0 for a date in the past.
HintMs(res) ==
  IF res.retryAfter.kind = "seconds" THEN Max(0, res.retryAfter.v * 1000)
  ELSE IF res.retryAfter.v > now THEN res.retryAfter.v - now
  ELSE 0

\* The delays backoffDelay can compute for an attempt under a policy.
BackoffDelays(attempt, retry) == {backoffDelay(attempt, retry, rnd) : rnd \in Rands}

\* C14: when the wait after a retryable response starts, its duration is the
\* hint of the response's Retry-After header if respectRetryAfterHeader is
\* true and the header is parseable, and a computed backoff delay of the
\* attempt otherwise (no header, unparseable header, or option false).
C14_WaitEqualsServerHint ==
  [][\A r \in Started :
       TryWaitStarts(r)
         => LET s == req'[r]
                policy == s.retryPolicy.v
                wait == s.sleepTimer.deadline - now
            IN /\ Pending(s.sleepTimer)
               /\ IF policy.respectRetryAfterHeader /\ HintParseable(s.res)
                  THEN wait = HintMs(s.res)
                  ELSE wait \in BackoffDelays(s.attempt, policy)]_vars

\* Under the default policy a 503 with `Retry-After: 1` started a wait of
\* 1000 ms, which no backoff delay of attempt 1 equals, and the second attempt
\* was made when it was over.
C14_Witness ==
  \E r \in Started :
    LET s == req[r]
        R == ResponsesOf(s)
        S == Events(s, "sleep")
    IN /\ s.retryPolicy # Undefined /\ s.retryPolicy.v.respectRetryAfterHeader
       /\ Len(R) >= 1 /\ R[1].retryAfter = [kind |-> "seconds", v |-> 1]
       /\ Len(S) >= 1 /\ S[1].data = 1000
       /\ 1000 \notin BackoffDelays(1, s.retryPolicy.v)
       /\ Calls(s) = 2
       /\ now = s.startedAt + 1000


\* A wait whose duration is a computed backoff delay starts in this step: the
\* wait of the catch block, or the wait of the try block without a usable hint.
BackoffWaitStarts(r) ==
  \/ req'[r].pc = "sleepCatch" /\ req[r].pc # "sleepCatch"
  \/ /\ TryWaitStarts(r)
     /\ ~(req'[r].retryPolicy.v.respectRetryAfterHeader /\ HintParseable(req'[r].res))

\* min(maxDelay, minDelay * factor^(k-1)), by k - 1 successive multiplications.
RawDelay(retry, k) ==
  LET grown[i \in 1..k] == IF i = 1 THEN retry.minDelay ELSE grown[i - 1] * retry.factor
  IN Min(retry.maxDelay, grown[k])

\* The duration of the wait that request r has started in this step.
WaitStarted(r) == req'[r].sleepTimer.deadline - now

\* C15: under a policy with jitter = 0, minDelay <= maxDelay and factor >= 1,
\* the computed backoff wait after attempt k is exactly
\* min(maxDelay, minDelay * factor^(k-1)).
C15_BackoffWithoutJitterIsExact ==
  [][\A r \in Started :
       (/\ BackoffWaitStarts(r)
        /\ req[r].retryPolicy.v.jitter = 0
        /\ req[r].retryPolicy.v.minDelay <= req[r].retryPolicy.v.maxDelay
        /\ req[r].retryPolicy.v.factor >= 1)
         => WaitStarted(r) = RawDelay(req[r].retryPolicy.v, req[r].attempt)]_vars

\* Without jitter, the wait after attempt 3 was maxDelay = 10 where
\* minDelay * factor^2 = 27.
C15_Witness ==
  \E r \in Started :
    LET s == req[r]
        S == Events(s, "sleep")
    IN /\ s.pc = "sleepCatch" /\ s.attempt = 3
       /\ s.retryPolicy.v.jitter = 0
       /\ s.retryPolicy.v.minDelay = 3 /\ s.retryPolicy.v.factor = 3
       /\ s.retryPolicy.v.maxDelay = 10
       /\ Len(S) = 3 /\ S[3].data = 10 /\ S[2].data = 9 /\ S[1].data = 3

\* C16 as claimed: under a policy with jitter j in (0, 1], every computed
\* backoff wait lies in [raw * (1 - j), raw * (1 + j)] and is >= 0.
C16_JitteredDelayWithinInterval ==
  [][\A r \in Started :
       (BackoffWaitStarts(r) /\ req[r].retryPolicy.v.jitter > 0)
         => LET retry == req[r].retryPolicy.v
                raw == RawDelay(retry, req[r].attempt)
            IN /\ 100 * WaitStarted(r) >= raw * (100 - retry.jitter)
               /\ 100 * WaitStarted(r) <= raw * (100 + retry.jitter)
               /\ WaitStarted(r) >= 0]_vars

\* C16 as amended: the draw from [raw * (1 - j), raw * (1 + j)) is floored, so
\* every computed backoff wait is >= 0 and lies in
\* [raw * (1 - j) - 1, raw * (1 + j)].
C16_JitteredDelayWithinFlooredInterval ==
  [][\A r \in Started :
       (BackoffWaitStarts(r) /\ req[r].retryPolicy.v.jitter > 0)
         => LET retry == req[r].retryPolicy.v
                raw == RawDelay(retry, req[r].attempt)
            IN /\ 100 * WaitStarted(r) >= raw * (100 - retry.jitter) - 100
               /\ 100 * WaitStarted(r) <= raw * (100 + retry.jitter)
               /\ WaitStarted(r) >= 0]_vars

\* With minDelay 3, factor 1 and jitter 0.25 the wait after attempt 1 was
\* 2 ms, the floor of the lower end 2.25 of the interval.
C16_Witness ==
  \E r \in Started :
    LET s == req[r]
        S == Events(s, "sleep")
    IN /\ s.pc = "sleepCatch" /\ s.attempt = 1
       /\ s.retryPolicy.v.jitter = 25
       /\ s.retryPolicy.v.minDelay = 3 /\ s.retryPolicy.v.factor = 1
       /\ Len(S) = 1 /\ S[1].data = 2


\* requestWithRetry has been called and has not settled.
InFlight(s) == s.pc \notin {"unused", "idle", "returned", "thrown", "done"}

\* The timeout of the request is positive and has gone by.
TimeoutExpired(s) ==
  /\ EffectiveTimeout(s) # Undefined
  /\ EffectiveTimeout(s).v > 0
  /\ now > s.startedAt + EffectiveTimeout(s).v

\* C17: while the request is in flight, the composed signal is aborted
\* whenever the caller's signal is aborted (also when it was aborted before
\* the request started) or the timeout has expired.
C17_ComposedSignalMirrorsSources ==
  \A r \in Started :
    (InFlight(req[r]) /\ (Aborted(req[r].userSignal) \/ TimeoutExpired(req[r])))
      => Aborted(req[r].signal)


\* C18: two requests run concurrently on one client. No step changes the
\* state of both (the composed signal, the timer, the attempt count and the
\* rest of one request stay as they are while the other one's timeout fires,
\* its caller aborts or it releases its resources); a composed signal is only
\* ever aborted by its own caller's signal or at its own deadline, and a
\* timer is only ever cleared by its own expiry or its own cleanup.
C18_ConcurrentRequestsDoNotInterfere ==
  /\ [][\A r \in Reqs : \A q \in Reqs \ {r} :
          req'[q] # req[q] => req'[r] = req[r]]_vars
  /\ [](\A r \in Started :
          LET s == req[r]
          IN /\ Aborted(s.signal)
                  => \/ s.firedAt.by = "caller" /\ Aborted(s.userSignal)
                     \/ /\ s.firedAt.by = "timeout"
                        /\ s.firedAt.at = s.startedAt + EffectiveTimeout(s).v
             /\ (s.timeoutId # Undefined /\ ~s.timeoutId.pending)
                  => \/ s.cleanupCalls >= 1
                     \/ s.timeoutId.deadline <= now /\ Aborted(s.signal))

\* The timeout of request 1 has just ended it during its second attempt,
\* while request 2, started before that, is still waiting for the transport
\* with its own timer pending and its signal not aborted.
C18_Witness ==
  /\ req[1].pc = "thrown"
  /\ req[1].firedAt # Undefined /\ req[1].firedAt.by = "timeout"
  /\ req[1].attempt = 2
  /\ req[2].pc = "fetch"
  /\ req[2].startedAt < req[1].firedAt.at
  /\ Pending(req[2].timeoutId)
  /\ ~Aborted(req[2].signal)
  /\ req[2].userSignal # Undefined /\ ~Aborted(req[2].userSignal)


\* The failure the transport has rejected with in this step.
FailureNow(r) ==
  LET F == Events(req'[r], "failure") IN F[Len(F)].data

\* C19 as claimed: when the transport fails after the composed signal has
\* fired, the failure ends the request in that step, without a wait; when it
\* fails while the composed signal has not fired, the failure is retried per
\* policy: the backoff wait starts if a policy is active and attempts remain,
\* and the failure is thrown otherwise.
C19_CancellationIffSignalFired ==
  [][\A r \in Started :
       Logged(r, "failure")
         => LET s == req[r]
                t == req'[r]
            IN IF Aborted(s.signal)
               THEN t.pc = "thrown" /\ ~Logged(r, "sleep")
               ELSE IF s.retryPolicy # Undefined /\ s.attempt < s.totalAttempts
                    THEN t.pc = "sleepCatch" /\ Logged(r, "sleep")
                    ELSE t.outcome = [kind |-> "thrown", error |-> FailureNow(r)]]_vars

\* C19 as amended: a transport failure is treated as a cancellation exactly
\* when it is an AbortError, whether the composed signal has fired or not: it
\* is thrown in that step, unchanged, with no wait. Any other failure is
\* retried per policy; if the composed signal has fired by then, the backoff
\* wait rejects at once with an AbortError and no attempt follows.
C19_CancellationIffAbortError ==
  [][\A r \in Started :
       Logged(r, "failure")
         => LET s == req[r]
                t == req'[r]
                err == FailureNow(r)
            IN /\ Calls(t) = Calls(s)
               /\ IF err.name = "AbortError"
                     \/ s.retryPolicy = Undefined \/ s.attempt >= s.totalAttempts
                  THEN /\ t.outcome = [kind |-> "thrown", error |-> err]
                       /\ ~Logged(r, "sleep")
                  ELSE IF Aborted(s.signal)
                       THEN /\ t.outcome = [kind |-> "thrown", error |-> SleepAbort]
                            /\ ~Logged(r, "sleep")
                       ELSE t.pc = "sleepCatch" /\ Logged(r, "sleep")]_vars

\* The transport rejected with an AbortError on attempt 1 of 2 although the
\* composed signal never fired, and the request ended with that failure after
\* one invocation.
C19_Witness ==
  \E r \in Started :
    LET s == req[r]
    IN /\ s.pc = "done"
       /\ s.totalAttempts = 2 /\ s.attempt = 1
       /\ s.signal # Undefined /\ ~Aborted(s.signal)
       /\ s.outcome = [kind |-> "thrown", error |-> TransportAbort]
       /\ Calls(s) = 1
       /\ Events(s, "sleep") = <<>>


\* The events that the last attempt the policy allows has logged.
FinalAttemptEvents(s) == SelectSeq(s.log, LAMBDA e : e.attempt = s.totalAttempts)

\* C20: when the request settles on its last attempt, what requestWithRetry
\* returns is the response of that attempt's transport invocation (if no hook
\* failed after it) and what it throws is the failure that invocation rejected
\* with, unchanged; the error 'Request failed' of the loop's fall-through is
\* never thrown.
C20_ExhaustedRetriesReturnLastOutcome ==
  \A r \in Started :
    LET s == req[r]
        E == FinalAttemptEvents(s)
        R == SelectSeq(E, LAMBDA e : e.ev = "response")
        F == SelectSeq(E, LAMBDA e : e.ev = "failure")
        H == SelectSeq(E, LAMBDA e : e.ev = "hookFailure")
    IN Settled(s)
         => /\ s.outcome # [kind |-> "thrown", error |-> RequestFailed]
            /\ (Len(R) = 1 /\ H = <<>>)
                 => s.outcome = [kind |-> "returned", res |-> R[1].data]
            /\ Len(F) = 1 => s.outcome = [kind |-> "thrown", error |-> F[1].data]

\* Under retries: 1 the transport answered 503 and then rejected with a
\* network error, which is what the request threw after 2 invocations.
C20_Witness ==
  \E r \in Started :
    LET s == req[r]
        R == ResponsesOf(s)
    IN /\ s.pc = "done"
       /\ s.totalAttempts = 2 /\ s.attempt = 2
       /\ Len(R) = 1 /\ R[1].status = 503
       /\ Calls(s) = 2
       /\ s.outcome = [kind |-> "thrown", error |-> NetworkError]


\* C21: when the transport rejects with a failure that is not an AbortError
\* while the composed signal has not fired, then under a policy with attempts
\* left the wait of a computed backoff delay of that attempt starts, and
\* otherwise the failure is thrown in that step without a wait. The wait ends:
\* either its timer comes due and the next attempt starts at that instant, or
\* the composed signal fires and the request is thrown.
C21_TransportFailureWaitsThenRetries ==
  /\ [][\A r \in Started :
          (/\ Logged(r, "failure")
           /\ ~isAbortError(FailureNow(r))
           /\ ~Aborted(req[r].signal))
            => LET s == req[r]
                   t == req'[r]
               IN IF s.retryPolicy # Undefined /\ s.attempt < s.totalAttempts
                  THEN /\ t.pc = "sleepCatch"
                       /\ t.attempt = s.attempt
                       /\ Pending(t.sleepTimer)
                       /\ WaitStarted(r) \in BackoffDelays(s.attempt, s.retryPolicy.v)
                  ELSE /\ t.outcome = [kind |-> "thrown", error |-> FailureNow(r)]
                       /\ ~Logged(r, "sleep")]_vars
  /\ [][\A r \in Started :
          (req[r].pc = "sleepCatch" /\ req'[r].pc # "sleepCatch")
            => \/ /\ req'[r].pc = "thrown"
                  /\ Aborted(req'[r].signal)
                  /\ ~Aborted(req[r].signal)
               \/ /\ req'[r].pc \in {"beforeRequest", "fetch"}
                  /\ req'[r].attempt = req[r].attempt + 1
                  /\ now = req[r].sleepTimer.deadline]_vars
  /\ \A r \in Reqs : (req[r].pc = "sleepCatch") ~> (req[r].pc # "sleepCatch")

\* After a network error on attempt 1 and a wait of more than 0 ms, the
\* transport is invoked for attempt 2 at the instant the wait was over.
C21_Witness ==
  \E r \in Started :
    LET s == req[r]
        F == Events(s, "failure")
        S == Events(s, "sleep")
    IN /\ s.pc = "fetch" /\ s.attempt = 2
       /\ Len(F) = 1 /\ F[1].data = NetworkError /\ F[1].attempt = 1
       /\ Len(S) = 1 /\ S[1].data > 0
       /\ now = s.startedAt + S[1].data
       /\ Calls(s) = 2


\* The code after the hooks decides in this step what to do with the response
\* of the current attempt: the transport has resolved and there is no
\* afterResponse hook, or the afterResponse hook has fulfilled.
ResponseHandled(r) ==
  \/ req[r].pc = "fetch" /\ Logged(r, "response") /\ ~config.afterResponse
  \/ /\ req[r].pc = "afterResponse"
     /\ req'[r].pc # "afterResponse"
     /\ ~Logged(r, "hookFailure")

\* The response is retried in this step: the wait before the next attempt
\* starts, or it rejects at once because the composed signal has fired.
RetriedNow(r) ==
  \/ req'[r].pc = "sleepTry" /\ Logged(r, "sleep")
  \/ Aborted(req[r].signal) /\ req'[r].pc = "thrown"

\* C22 as claimed: under an active policy a response is retried if and only if
\* its status is in statusCodes and attempts remain, whatever the status, 2xx
\* included; in every other case it is returned.
C22_RetriedIffStatusListed ==
  [][\A r \in Started :
       (ResponseHandled(r) /\ req[r].retryPolicy # Undefined)
         => LET s == req[r]
                res == req'[r].res
            IN IF res.status \in s.retryPolicy.v.statusCodes /\ s.attempt < s.totalAttempts
               THEN RetriedNow(r)
               ELSE req'[r].outcome = [kind |-> "returned", res |-> res]]_vars

\* C22 as amended: under an active policy a response is retried if and only if
\* it is not ok (its status is outside 200..299), its status is in statusCodes
\* and attempts remain; in every other case, a 2xx status of statusCodes
\* included, it is returned.
C22_RetriedIffNotOkAndStatusListed ==
  [][\A r \in Started :
       (ResponseHandled(r) /\ req[r].retryPolicy # Undefined)
         => LET s == req[r]
                res == req'[r].res
            IN IF /\ ~(res.status >= 200 /\ res.status <= 299)
                  /\ res.status \in s.retryPolicy.v.statusCodes
                  /\ s.attempt < s.totalAttempts
               THEN RetriedNow(r)
               ELSE req'[r].outcome = [kind |-> "returned", res |-> res]]_vars

\* Under statusCodes {200, 503} and retries 2, a 503 was retried and the 200
\* that followed on attempt 2 of 3 was returned.
C22_Witness ==
  \E r \in Started :
    LET s == req[r]
        R == ResponsesOf(s)
    IN /\ s.retryPolicy # Undefined
       /\ s.retryPolicy.v.statusCodes = {200, 503}
       /\ s.totalAttempts = 3 /\ s.attempt = 2
       /\ Len(R) = 2 /\ R[1].status = 503 /\ R[2].status = 200
       /\ s.pc = "done"
       /\ s.outcome.kind = "returned" /\ s.outcome.res.status = 200


\* The kinds of the events that attempt i of a request has logged, in order.
AttemptKinds(s, i) ==
  LET E == SelectSeq(s.log, LAMBDA e : e.attempt = i)
  IN [j \in 1..Len(E) |-> E[j].ev]

\* Attempt i of the request is over.
AttemptOver(s, i) == i < s.attempt \/ (i = s.attempt /\ Settled(s))

Count(kinds, ev) == Cardinality({j \in DOMAIN kinds : kinds[j] = ev})

\* C23 as claimed: an attempt that has invoked the transport and is over has
\* run each configured hook exactly once, beforeRequest before the invocation
\* and afterResponse after it.
C23_HooksOncePerInvocation ==
  \A r \in Started : \A i \in 1..req[r].attempt :
    LET K == AttemptKinds(req[r], i)
    IN (AttemptOver(req[r], i) /\ Count(K, "fetch") = 1)
         => /\ config.beforeRequest => Count(K, "beforeRequest") = 1
            /\ config.afterResponse => Count(K, "afterResponse") = 1

\* What an attempt does up to its retry decision, by the hooks configured.
AttemptRuns ==
  LET pre == IF config.beforeRequest THEN <<"beforeRequest">> ELSE <<>>
      post == IF config.afterResponse THEN <<"afterResponse">> ELSE <<>>
  IN {pre \o <<"fetch", "failure">>, pre \o <<"fetch", "response">> \o post}
       \cup (IF config.beforeRequest THEN {pre \o <<"hookFailure">>} ELSE {})
       \cup (IF config.afterResponse
             THEN {pre \o <<"fetch", "response">> \o post \o <<"hookFailure">>}
             ELSE {})

IsPrefix(p, q) == Len(p) <= Len(q) /\ SubSeq(q, 1, Len(p)) = p

\* C23 as amended: every attempt runs, in this order and each at most once,
\* the beforeRequest hook, the transport invocation, and, if the invocation
\* resolved with a response, the afterResponse hook; only then comes the retry
\* decision and the backoff wait, and only after the wait the next attempt.
\* The afterResponse hook does not run for an invocation that rejected, and
\* the transport is not invoked after a beforeRequest hook that failed.
C23_HooksInOrderOncePerAttempt ==
  \A r \in Started :
    LET s == req[r]
    IN /\ \A j \in 1..(Len(s.log) - 1) : s.log[j].attempt <= s.log[j + 1].attempt
       /\ \A i \in 1..s.attempt :
            LET K == AttemptKinds(s, i)
            IN /\ \E run \in AttemptRuns : IsPrefix(K, run \o <<"sleep">>)
               /\ i < s.attempt => \E run \in AttemptRuns : K = run \o <<"sleep">>
               /\ (i = s.attempt /\ Settled(s))
                    => \E run \in AttemptRuns : K \in {run, run \o <<"sleep">>}

\* With both hooks configured, two attempts ran in the order beforeRequest,
\* transport, afterResponse, with the wait between them.
C23_Witness ==
  \E r \in Started :
    /\ req[r].pc = "done"
    /\ req[r].attempt = 2
    /\ AttemptKinds(req[r], 1) =
         <<"beforeRequest", "fetch", "response", "afterResponse", "sleep">>
    /\ AttemptKinds(req[r], 2) =
         <<"beforeRequest", "fetch", "response", "afterResponse">>


\* The transport invocations of a request that have started and not settled.
InvocationsInFlight(s) ==
  Count([j \in 1..Len(s.log) |-> s.log[j].ev], "fetch")
    - Count([j \in 1..Len(s.log) |-> s.log[j].ev], "response")
    - Count([j \in 1..Len(s.log) |-> s.log[j].ev], "failure")

\* This step invokes the transport for attempt n of request r.
InvokesTransport(r, n) ==
  /\ Len(req'[r].log) > Len(req[r].log)
  /\ \E j \in (Len(req[r].log) + 1)..Len(req'[r].log) :
       req'[r].log[j].ev = "fetch" /\ req'[r].log[j].attempt = n

\* C24: at every moment at most one transport invocation of a request is in
\* flight, and the invocation of attempt N+1 starts only when no invocation of
\* attempt N is in flight any more, the wait after attempt N was started, and
\* the timer of that wait has fired at or after its deadline.
C24_AttemptsStrictlySequential ==
  /\ [](\A r \in Started :
          /\ InvocationsInFlight(req[r]) \in {0, 1}
          /\ InvocationsInFlight(req[r]) = 1 <=> req[r].pc = "fetch")
  /\ [][\A r \in Started : \A n \in 2..(MaxRetryCount + 2) :
          InvokesTransport(r, n)
            => /\ InvocationsInFlight(req[r]) = 0
               /\ AttemptKinds(req[r], n - 1) # <<>>
               /\ LET K == AttemptKinds(req[r], n - 1)
                  IN K[Len(K)] = "sleep"
               /\ ~Pending(req'[r].sleepTimer)
               /\ req'[r].sleepTimer.deadline <= now]_vars

\* The transport is in flight for attempt 2 after a wait that took time.
C24_Witness ==
  \E r \in Started :
    /\ req[r].pc = "fetch"
    /\ req[r].attempt = 2
    /\ Count(AttemptKinds(req[r], 1), "fetch") = 1
    /\ req[r].sleepTimer.deadline > req[r].startedAt
    /\ now >= req[r].sleepTimer.deadline


\* requestWithRetry has thrown a cancellation failure after the composed
\* signal fired, and the failure is not one that the transport made up.
CancellationPropagated(s) ==
  /\ s.pc = "thrown"
  /\ Aborted(s.signal)
  /\ s.outcome.error # TransportAbort
  /\ isAbortError(s.outcome.error) \/ s.outcome.error = s.signal.reason

\* C25: a cancellation failure thrown to the caller is the reason the composed
\* signal was aborted with: the caller signal's reason after a caller abort,
\* the controller's own abort error after the timeout, whether the abort hit
\* the transport call or a backoff wait.
C25_CancellationCarriesOriginatingReason ==
  \A r \in Started :
    CancellationPropagated(req[r])
      => /\ req[r].outcome.error = req[r].signal.reason
         /\ req[r].firedAt.by = "caller"
              => req[r].outcome.error = req[r].userSignal.reason
         /\ req[r].firedAt.by = "timeout"
              => req[r].outcome.error = ControllerAbort


\* The policy of request r is one of those the backoff bounds are stated for.
BoundedPolicy(r) ==
  LET retry == req[r].retryPolicy.v
  IN /\ retry.minDelay <= retry.maxDelay
     /\ retry.factor >= 1
     /\ retry.jitter \in 0..100

\* C26 as claimed: under a policy with minDelay <= maxDelay, factor >= 1 and
\* jitter in [0, 1], every computed backoff wait lies in [minDelay, maxDelay].
C26_DelayWithinMinAndMax ==
  [][\A r \in Started :
       (BackoffWaitStarts(r) /\ BoundedPolicy(r))
         => /\ WaitStarted(r) >= req[r].retryPolicy.v.minDelay
            /\ WaitStarted(r) <= req[r].retryPolicy.v.maxDelay]_vars

\* C26 as amended: under such a policy with minDelay >= 0 the computed backoff
\* wait lies in [minDelay, maxDelay] when jitter is 0, and for every jitter j
\* it is at least floor(minDelay * (1 - j)) and at most maxDelay * (1 + j).
C26_DelayWithinJitteredMinAndMax ==
  [][\A r \in Started :
       (BackoffWaitStarts(r) /\ BoundedPolicy(r) /\ req[r].retryPolicy.v.minDelay >= 0)
         => LET retry == req[r].retryPolicy.v
            IN /\ retry.jitter = 0
                    => /\ WaitStarted(r) >= retry.minDelay
                       /\ WaitStarted(r) <= retry.maxDelay
               /\ WaitStarted(r) >= (retry.minDelay * (100 - retry.jitter)) \div 100
               /\ 100 * WaitStarted(r) <= retry.maxDelay * (100 + retry.jitter)]_vars

\* With minDelay 250 and jitter 0.25 the wait after attempt 1 was 187 ms,
\* below minDelay.
C26_Witness ==
  \E r \in Started :
    LET s == req[r]
        S == Events(s, "sleep")
    IN /\ s.pc = "sleepCatch" /\ s.attempt = 1
       /\ s.retryPolicy.v.jitter = 25
       /\ s.retryPolicy.v.minDelay = 250 /\ s.retryPolicy.v.maxDelay = 1000
       /\ Len(S) = 1 /\ S[1].data = 187


\* The method of the request equals an entry of the configured methods up to
\* letter case (an absent method is GET).
MethodListedUpToCase(s) ==
  LET source == RetrySource(s.options.retry, config.retry)
  IN \E entry \in RetryBase(source).methods :
       toUpperCase(entry) = normalizeMethod(s.options.method)

\* C27: under an enabled retry configuration with a non-empty methods list, a
\* request whose method equals an entry up to letter case runs with a policy
\* for the whole request, and any other request runs without one.
C27_MethodComparedCaseInsensitively ==
  \A r \in Started :
    LET source == RetrySource(req[r].options.retry, config.retry)
    IN (~Falsy(source) /\ NonEmptyMethods(req[r]))
         => (MethodListedUpToCase(req[r]) <=> req[r].retryPolicy # Undefined)


\* C28: a call of cleanup after the first leaves the request's state as the
\* first call left it (timer cleared, listener detached), and once cleanup
\* has been called neither a caller abort nor the passing of the timeout
\* changes the composed signal.
C28_ReleaseIsIdempotent ==
  /\ [](\A r \in Reqs :
          req[r].cleanupCalls >= 1
            => ~req[r].onAbort /\ ~Pending(req[r].timeoutId))
  /\ [][\A r \in Reqs :
          req[r].cleanupCalls >= 1
            => /\ req'[r].signal = req[r].signal
               /\ req'[r].cleanupCalls > req[r].cleanupCalls
                    => req'[r] = [req[r] EXCEPT !.cleanupCalls = @ + 1]]_vars

\* cleanup was called twice, then the caller aborted and the clock passed
\* the timeout: the composed signal has not fired.
C28_Witness ==
  \E r \in Reqs :
    /\ req[r].cleanupCalls >= 2
    /\ req[r].userSignal # Undefined /\ req[r].userSignal.aborted
    /\ req[r].signal # Undefined /\ ~req[r].signal.aborted
    /\ req[r].timeoutId # Undefined /\ req[r].timeoutId.deadline < now


\* The delay that request r has just passed to sleep.
DelayPassed(r) ==
  LET S == Events(req'[r], "sleep") IN S[Len(S)].data

\* C29: when the wait after a retryable response starts under a policy that
\* honours the header, the delay passed to sleep is never negative; for a
\* header of n seconds it is n * 1000 ms, and 0 if n is negative; for a date
\* it is the distance from now to the date, and 0 if the date is past; for an
\* absent or unparseable header it is a computed backoff delay.
C29_HintParsedAndFlooredAtZero ==
  [][\A r \in Started :
       (TryWaitStarts(r) /\ req'[r].retryPolicy.v.respectRetryAfterHeader)
         => LET ra == req'[r].res.retryAfter
                retry == req'[r].retryPolicy.v
            IN /\ DelayPassed(r) >= 0
               /\ ra.kind = "seconds"
                    => DelayPassed(r) = (IF ra.v < 0 THEN 0 ELSE ra.v * 1000)
               /\ ra.kind = "date"
                    => DelayPassed(r) = (IF ra.v < now THEN 0 ELSE ra.v - now)
               /\ ra.kind \in {"absent", "other"}
                    => DelayPassed(r) \in BackoffDelays(req'[r].attempt, retry)]_vars

\* Under the default policy a 503 with `Retry-After: -1` started a wait of
\* 0 ms, which no backoff delay of attempt 1 equals.
C29_Witness ==
  \E r \in Started :
    LET s == req[r]
        R == ResponsesOf(s)
        S == Events(s, "sleep")
    IN /\ s.retryPolicy # Undefined /\ s.retryPolicy.v.respectRetryAfterHeader
       /\ Len(R) >= 1 /\ R[1].retryAfter = [kind |-> "seconds", v |-> -1]
       /\ Len(S) >= 1 /\ S[1].data = 0
       /\ 0 \notin BackoffDelays(1, s.retryPolicy.v)


\* C30: under a policy with retries >= 0 and without a policy, the loop of
\* requestWithRetry never runs out: the attempt number stays within
\* 1..totalAttempts, and no request ends with the error of the code after
\* the loop.
C30_FallThroughUnreachable ==
  \A r \in Started :
    (req[r].retryPolicy = Undefined \/ req[r].retryPolicy.v.retries >= 0)
      => /\ req[r].attempt \in 1..req[r].totalAttempts
         /\ (Settled(req[r]) /\ req[r].outcome.kind = "thrown")
              => req[r].outcome.error # RequestFailed

\* All three attempts of a policy with 2 retries were used, and the third
\* retryable response was returned from inside the loop.
C30_Witness ==
  \E r \in Started :
    LET s == req[r]
        R == ResponsesOf(s)
    IN /\ s.pc = "returned"
       /\ s.retryPolicy # Undefined /\ s.retryPolicy.v.retries = 2
       /\ s.attempt = 3 /\ s.totalAttempts = 3
       /\ Calls(s) = 3 /\ Len(R) = 3 /\ Retryable(s, R[3])
       /\ s.outcome.res = R[3]

====
